---- MODULE Spec2Model ----
(***************************************************************************)
(* Matchmaking and match-lifecycle core of the Share-or-Steal server       *)
(* (src/server/index.js).  One action per socket.io handler or timer       *)
(* callback; every handler runs to completion (single-threaded event       *)
(* loop), so each action is one atomic step.                               *)
(***************************************************************************)
EXTENDS Integers, Sequences, FiniteSets, TLC

\* ---------------------------------------------------------------- bounds
MaxMatches == 2        \* number of match identifiers uuidv4() hands out
MaxJoins == 3          \* join_location events handled, two sockets, two venues
MaxJoinsTimed == 2     \* the same, two sockets, one venue, deadlines passing
MaxJoinsRejoin == 4    \* the same, two sockets and one venue
MaxJoinsCrowd == 4     \* the same, three sockets and one venue
MaxJoinsLive == 2      \* the same, in the runs checked for termination

\* ------------------------------------------------------------- constants
DECISION_MS == 20000
GRACE_MS == 250

\* The clock stops advancing here: late enough for the timer of every match
\* of a run that starts at 0, each created no later than the timer of the one
\* before it fires.
MaxNow == MaxMatches * (DECISION_MS + GRACE_MS)

\* socket ids, in the order the transport issues them
SocketIds == <<"c1", "c2", "c3">>
Conns == {SocketIds[i] : i \in 1..Len(SocketIds)}
Locs == {"L1", "L2"}                 \* location ids
Codes == {"AAAAAA", "BBBBBB"}        \* values of the random code()
NULL == "null"
Choices == {"share", "steal"}
SubmittedChoices == {"share", "steal", "maybe"}   \* "maybe": an illegal value
MatchIds == 1..MaxMatches
SubmittedIds == MatchIds

VARIABLES
  sockets,            \* io.sockets.sockets: ids of the connected sockets
  unissued,           \* socket ids not yet issued, in order of issue
  venues,             \* the location ids the clients name in join_location
  decisions,          \* the choice values the clients send in submit_choice
  socketData,         \* socket.data.locationId per socket (NULL before a join)
  cleanups,           \* per socket and location: number of registered
                      \* queued-disconnect handlers (index.js:103)
  waitingByLocation,  \* locationId -> sequence of socket ids
  matches,            \* matchId -> match record
  timers,             \* matchId -> due time of the pending setTimeout
  nextId,             \* next identifier uuidv4() returns
  joinsLeft,          \* number of join_location events still to be handled
  now,                \* Date.now()
  emitted,            \* messages emitted by the last step, in order
  last                \* the event the last step handled

vars == <<sockets, unissued, venues, decisions, socketData, cleanups, waitingByLocation, matches,
          timers, nextId, joinsLeft, now, emitted, last>>

\* ------------------------------------------------------------- messages
\* One record shape for every event; unused fields hold NULL / 0 / -1.
Msg(to, ev) ==
  [to |-> to, ev |-> ev, matchId |-> 0, position |-> 0, text |-> NULL,
   opponent |-> NULL, decisionDeadline |-> -1,
   yourChoice |-> NULL, theirChoice |-> NULL, yourPrizeCode |-> NULL]

QueuedMsg(to, position) ==
  [Msg(to, "queued") EXCEPT !.position = position]

ErrorMsg(to, message) ==
  [Msg(to, "error") EXCEPT !.text = message]

ChoiceRecordedMsg(to, matchId) ==
  [Msg(to, "choice_recorded") EXCEPT !.matchId = matchId]

RequeueMsg(to, reason) ==
  [Msg(to, "requeue") EXCEPT !.text = reason]

MatchFoundMsg(to, matchId, opponent, deadline) ==
  [Msg(to, "match_found") EXCEPT !.matchId = matchId, !.opponent = opponent,
                                 !.decisionDeadline = deadline]

ResultMsgSwapped(to, matchId, yourChoice, theirChoice, prize) ==
  [Msg(to, "result") EXCEPT !.matchId = matchId, !.yourChoice = theirChoice,
                            !.theirChoice = yourChoice,
                            !.yourPrizeCode = prize]

ResultMsg(to, matchId, yourChoice, theirChoice, prize) ==
  [Msg(to, "result") EXCEPT !.matchId = matchId, !.yourChoice = yourChoice,
                            !.theirChoice = theirChoice,
                            !.yourPrizeCode = prize]

\* the event a step handles: its name, the socket it arrives on and its payload
Event(ev, c, locationId, matchId, choice) ==
  [ev |-> ev, c |-> c, locationId |-> locationId, matchId |-> matchId,
   choice |-> choice]

\* -------------------------------------------------------------- helpers
NoMatches == [id \in {} |-> NULL]

Put(f, k, v) == [x \in DOMAIN f \cup {k} |-> IF x = k THEN v ELSE f[x]]

Remove(f, k) == [x \in DOMAIN f \ {k} |-> f[x]]

\* q.indexOf(x): first (1-based) index of x in q, 0 when absent
IndexOf(q, x) ==
  IF \E i \in 1..Len(q) : q[i] = x
    THEN CHOOSE i \in 1..Len(q) : q[i] = x /\ \A j \in 1..(i - 1) : q[j] # x
    ELSE 0

\* q.splice(idx, 1)
Splice(q, idx) == SubSeq(q, 1, idx - 1) \o SubSeq(q, idx + 1, Len(q))

\* the queued-disconnect handler registered at index.js:103 for socket c
CleanupHandler(q, c) ==
  IF IndexOf(q, c) # 0 THEN Splice(q, IndexOf(q, c)) ELSE q

RECURSIVE RunCleanups(_, _, _)
RunCleanups(q, c, n) ==
  IF n = 0 THEN q ELSE RunCleanups(CleanupHandler(q, c), c, n - 1)

\* computeOutcomeAndPrizes(a, b); k1, k2 are the values code() returns
computeOutcomeBothOnSteal(a, b, k1, k2) ==
  IF a = "share" /\ b = "share"
    THEN [outcome |-> "SS", aPrize |-> "P-" \o k1, bPrize |-> "P-" \o k2]
  ELSE IF a = "share" /\ b = "steal"
    THEN [outcome |-> "ST", aPrize |-> "P-" \o k2,
          bPrize |-> "P-" \o k1 \o "-BOTH"]
  ELSE IF a = "steal" /\ b = "share"
    THEN [outcome |-> "TS", aPrize |-> "P-" \o k1 \o "-BOTH", bPrize |-> NULL]
  ELSE [outcome |-> "TT", aPrize |-> NULL, bPrize |-> NULL]

computeOutcomeAndPrizes(a, b, k1, k2) ==
  IF a = "share" /\ b = "share"
    THEN [outcome |-> "SS", aPrize |-> "P-" \o k1, bPrize |-> "P-" \o k2]
  ELSE IF a = "share" /\ b = "steal"
    THEN [outcome |-> "ST", aPrize |-> NULL, bPrize |-> "P-" \o k1 \o "-BOTH"]
  ELSE IF a = "steal" /\ b = "share"
    THEN [outcome |-> "TS", aPrize |-> "P-" \o k1 \o "-BOTH", bPrize |-> NULL]
  ELSE [outcome |-> "TT", aPrize |-> NULL, bPrize |-> NULL]

\* match.x.choice || (now > match.deadline ? 'steal' : null)
DecidedOverride(choice, t, deadline) ==
  IF t > deadline THEN "steal" ELSE choice

DecidedNever(choice, t, deadline) == choice

DecidedAtOnce(choice, t, deadline) ==
  IF choice # NULL THEN choice ELSE "steal"

DecidedShare(choice, t, deadline) ==
  IF choice # NULL THEN choice
  ELSE IF t > deadline THEN "share" ELSE NULL

Decided(choice, t, deadline) ==
  IF choice # NULL THEN choice
  ELSE IF t > deadline THEN "steal" ELSE NULL

\* maybeFinish(matchId) run on match table ms and timer table tm at time t
\* with connected sockets live: the new tables and the messages it emits.
maybeFinish(ms, tm, matchId, t, live, k1, k2) ==
  IF matchId \notin DOMAIN ms \/ ms[matchId].finished
    THEN [matches |-> ms, timers |-> tm, out |-> <<>>]
  ELSE
    LET match == ms[matchId]
        a == Decided(match.a.choice, t, match.deadline)
        b == Decided(match.b.choice, t, match.deadline)
        res == computeOutcomeAndPrizes(a, b, k1, k2)
        outA == IF match.a.id \in live
                  THEN <<ResultMsg(match.a.id, match.id, a, b, res.aPrize)>>
                  ELSE <<>>
        outB == IF match.b.id \in live
                  THEN <<ResultMsg(match.b.id, match.id, b, a, res.bPrize)>>
                  ELSE <<>>
    IN IF a # NULL /\ b # NULL
         THEN [matches |-> Remove(ms, matchId),
               timers |-> Remove(tm, matchId),
               out |-> outA \o outB]
         ELSE [matches |-> ms, timers |-> tm, out |-> <<>>]

\* ---------------------------------------------------------------- Init
InitWith(ids, locs, chs, joins, t) ==
  /\ sockets = {}
  /\ unissued = ids
  /\ venues = locs
  /\ decisions = chs
  /\ socketData = [c \in Conns |-> NULL]
  /\ cleanups = [c \in Conns |-> [l \in Locs |-> 0]]
  /\ waitingByLocation = [l \in Locs |-> <<>>]
  /\ matches = NoMatches
  /\ timers = NoMatches
  /\ nextId = 1
  /\ joinsLeft = joins
  /\ now = t
  /\ emitted = <<>>
  /\ last = Event("listen", NULL, NULL, 0, NULL)

\* io.on('connection'): a new transport session; registers the handlers.
Connect(c) ==
  /\ unissued # <<>>
  /\ c = Head(unissued)
  /\ unissued' = Tail(unissued)
  /\ sockets' = sockets \cup {c}
  /\ emitted' = <<>>
  /\ last' = Event("connection", c, NULL, 0, NULL)
  /\ UNCHANGED <<venues, decisions, socketData, cleanups, waitingByLocation, matches,
                 timers, nextId, joinsLeft, now>>

\* The instants at which a comparison of the code changes its outcome: a
\* match's deadline (now > deadline is still false), the first instant past
\* it, and the due time of a pending timer.
TickTargets ==
  {matches[id].deadline : id \in DOMAIN matches}
    \cup {matches[id].deadline + 1 : id \in DOMAIN matches}
    \cup {timers[id] : id \in DOMAIN timers}

\* Date.now() advances to t between two events.
Tick(t) ==
  /\ t > now
  /\ t <= MaxNow
  /\ now' = t
  /\ emitted' = <<>>
  /\ last' = Event("tick", NULL, NULL, 0, NULL)
  /\ UNCHANGED <<sockets, unissued, venues, decisions, socketData, cleanups, waitingByLocation,
                 matches, timers, nextId, joinsLeft>>

\* createMatch(sockA, sockB), called with socket.data already assigned
NewMatchSwapped(matchId, sockA, sockB, data, t) ==
  [id |-> matchId,
   locationId |-> data[sockA],
   a |-> [id |-> sockB, choice |-> NULL],
   b |-> [id |-> sockA, choice |-> NULL],
   deadline |-> t + DECISION_MS,
   finished |-> FALSE]

NewMatch(matchId, sockA, sockB, data, t) ==
  [id |-> matchId,
   locationId |-> data[sockA],
   a |-> [id |-> sockA, choice |-> NULL],
   b |-> [id |-> sockB, choice |-> NULL],
   deadline |-> t + DECISION_MS,
   finished |-> FALSE]

\* { position: queue.length }, read after the push
PositionOffByOne(queue) == Len(queue) - 1

Position(queue) == Len(queue)

\* socket.on('join_location') of socket c
JoinLocation(c, locationId) ==
  LET data == [socketData EXCEPT ![c] = locationId]
      queue == waitingByLocation[locationId]
      partnerId == Head(queue)
  IN
  /\ c \in sockets
  /\ locationId \in venues
  /\ joinsLeft > 0
  /\ joinsLeft' = joinsLeft - 1
  /\ last' = Event("join_location", c, locationId, 0, NULL)
  /\ socketData' = data
  /\ IF Len(queue) > 0
       THEN IF partnerId \notin sockets
              THEN \* partner disappeared: requeue
                   /\ waitingByLocation' =
                        [waitingByLocation EXCEPT
                           ![locationId] = Append(Tail(queue), c)]
                   /\ emitted' =
                        <<QueuedMsg(c, Position(Append(Tail(queue), c)))>>
                   /\ UNCHANGED <<matches, timers, nextId, cleanups>>
              ELSE \* createMatch(partner, socket)
                   /\ nextId <= MaxMatches
                   /\ waitingByLocation' =
                        [waitingByLocation EXCEPT ![locationId] = Tail(queue)]
                   /\ matches' = Put(matches, nextId,
                                     NewMatch(nextId, partnerId, c, data, now))
                   /\ timers' = Put(timers, nextId,
                                    now + DECISION_MS + GRACE_MS)
                   /\ nextId' = nextId + 1
                   /\ emitted' =
                        <<MatchFoundMsg(partnerId, nextId, c,
                                        now + DECISION_MS),
                          MatchFoundMsg(c, nextId, partnerId,
                                        now + DECISION_MS)>>
                   /\ UNCHANGED cleanups
       ELSE \* enqueue, and clean up if they disconnect while queued
            /\ waitingByLocation' =
                 [waitingByLocation EXCEPT ![locationId] = Append(queue, c)]
            /\ emitted' = <<QueuedMsg(c, Position(Append(queue, c)))>>
            /\ cleanups' = [cleanups EXCEPT ![c][locationId] = @ + 1]
            /\ UNCHANGED <<matches, timers, nextId>>
  /\ UNCHANGED <<sockets, unissued, venues, decisions, now>>

\* the side the if / else-if chain of submit_choice assigns to
SideOrB(c, match) ==
  IF c = match.a.id THEN "a" ELSE "b"

Side(c, match) ==
  IF c = match.a.id THEN "a"
  ELSE IF c = match.b.id THEN "b"
  ELSE "none"

\* match.x.choice = choice
KeepFirstChoice(old, choice) == IF old # NULL THEN old ELSE choice

RecordChoice(old, choice) == choice

\* socket.on('submit_choice') of socket c
SubmitChoice(c, matchId, choice) ==
  LET match == matches[matchId]
      recorded ==
        IF Side(c, match) = "a"
          THEN [matches EXCEPT
                  ![matchId].a.choice = RecordChoice(@, choice)]
          ELSE [matches EXCEPT
                  ![matchId].b.choice = RecordChoice(@, choice)]
  IN
  /\ c \in sockets
  /\ choice \in decisions
  /\ last' = Event("submit_choice", c, NULL, matchId, choice)
  /\ IF matchId \notin DOMAIN matches
       THEN /\ emitted' = <<ErrorMsg(c, "Match not found")>>
            /\ UNCHANGED <<matches, timers>>
     ELSE IF choice \notin Choices
       THEN /\ emitted' = <<>>
            /\ UNCHANGED <<matches, timers>>
     ELSE IF Side(c, match) = "none"
       THEN /\ emitted' = <<ErrorMsg(c, "Not part of this match")>>
            /\ UNCHANGED <<matches, timers>>
     ELSE \E k1 \in Codes, k2 \in Codes :
            LET fin == maybeFinish(recorded, timers, matchId, now, sockets,
                                   k1, k2)
            IN /\ emitted' = <<ChoiceRecordedMsg(c, matchId)>> \o fin.out
               /\ matches' = fin.matches
               /\ timers' = fin.timers
  /\ UNCHANGED <<sockets, unissued, venues, decisions, socketData, cleanups, waitingByLocation,
                 nextId, joinsLeft, now>>

\* the setTimeout callback armed by createMatch for matchId
TimerFire(matchId) ==
  /\ matchId \in DOMAIN timers
  /\ now >= timers[matchId]
  /\ \E k1 \in Codes, k2 \in Codes :
       LET fin == maybeFinish(matches, Remove(timers, matchId), matchId, now,
                              sockets, k1, k2)
       IN /\ emitted' = fin.out
          /\ matches' = fin.matches
          /\ timers' = fin.timers
  /\ last' = Event("timeout", NULL, NULL, matchId, NULL)
  /\ UNCHANGED <<sockets, unissued, venues, decisions, socketData, cleanups, waitingByLocation,
                 nextId, joinsLeft, now>>

RECURSIVE CancelLoop(_, _, _, _)
CancelNothing(ids, c, live, st) == st

CancelFirstOnly(ids, c, live, st) ==
  IF ids = {} THEN st
  ELSE
    LET matchId == CHOOSE i \in ids : \A j \in ids : i <= j
        match == st.matches[matchId]
        survivorId == IF match.a.id = c THEN match.b.id ELSE match.a.id
        loc == match.locationId
        hit == ~match.finished /\ (match.a.id = c \/ match.b.id = c)
        requeued == hit /\ survivorId \in live
        st2 == [matches |-> IF hit THEN Remove(st.matches, matchId)
                                   ELSE st.matches,
                waiting |-> IF requeued
                              THEN [st.waiting EXCEPT
                                      ![loc] = Append(@, survivorId)]
                              ELSE st.waiting,
                out |-> IF requeued
                          THEN Append(st.out,
                                 RequeueMsg(survivorId,
                                            "Opponent disconnected"))
                          ELSE st.out]
    IN IF hit THEN st2 ELSE CancelLoop(ids \ {matchId}, c, live, st2)

CancelAndPrepend(ids, c, live, st) ==
  IF ids = {} THEN st
  ELSE
    LET matchId == CHOOSE i \in ids : \A j \in ids : i <= j
        match == st.matches[matchId]
        survivorId == IF match.a.id = c THEN match.b.id ELSE match.a.id
        loc == match.locationId
        hit == ~match.finished /\ (match.a.id = c \/ match.b.id = c)
        requeued == hit /\ survivorId \in live
        st2 == [matches |-> IF hit THEN Remove(st.matches, matchId)
                                   ELSE st.matches,
                waiting |-> IF requeued
                              THEN [st.waiting EXCEPT
                                      ![loc] = <<survivorId>> \o @]
                              ELSE st.waiting,
                out |-> IF requeued
                          THEN Append(st.out,
                                 RequeueMsg(survivorId,
                                            "Opponent disconnected"))
                          ELSE st.out]
    IN CancelLoop(ids \ {matchId}, c, live, st2)

\* The loop of the connection-level disconnect handler over the matches in
\* insertion order; st = [matches, waiting, out].
CancelLoop(ids, c, live, st) ==
  IF ids = {} THEN st
  ELSE
    LET matchId == CHOOSE i \in ids : \A j \in ids : i <= j
        match == st.matches[matchId]
        survivorId == IF match.a.id = c THEN match.b.id ELSE match.a.id
        loc == match.locationId
        hit == ~match.finished /\ (match.a.id = c \/ match.b.id = c)
        requeued == hit /\ survivorId \in live
        st2 == [matches |-> IF hit THEN Remove(st.matches, matchId)
                                   ELSE st.matches,
                waiting |-> IF requeued
                              THEN [st.waiting EXCEPT
                                      ![loc] = Append(@, survivorId)]
                              ELSE st.waiting,
                out |-> IF requeued
                          THEN Append(st.out,
                                 RequeueMsg(survivorId,
                                            "Opponent disconnected"))
                          ELSE st.out]
    IN CancelLoop(ids \ {matchId}, c, live, st2)

\* transport disconnect of socket c: the socket leaves io.sockets.sockets,
\* then its 'disconnect' handlers run in registration order
Disconnect(c) ==
  LET live == sockets \ {c}
      st == CancelLoop(DOMAIN matches, c, live,
                       [matches |-> matches, waiting |-> waitingByLocation,
                        out |-> <<>>])
  IN
  /\ c \in sockets
  /\ sockets' = live
  /\ matches' = st.matches
  /\ waitingByLocation' =
       [l \in Locs |-> RunCleanups(st.waiting[l], c, cleanups[c][l])]
  /\ emitted' = st.out
  /\ last' = Event("disconnect", c, NULL, 0, NULL)
  \* the socket object, its data and its handlers are discarded
  /\ socketData' = [socketData EXCEPT ![c] = NULL]
  /\ cleanups' = [cleanups EXCEPT ![c] = [l \in Locs |-> 0]]
  /\ UNCHANGED <<unissued, venues, decisions, timers, nextId, joinsLeft, now>>

Next ==
  \/ \E c \in Conns : Connect(c)
  \/ \E t \in TickTargets : Tick(t)
  \/ \E c \in Conns, l \in Locs : JoinLocation(c, l)
  \/ \E c \in Conns, id \in SubmittedIds, ch \in SubmittedChoices :
       SubmitChoice(c, id, ch)
  \/ \E id \in MatchIds : TimerFire(id)
  \/ \E c \in Conns : Disconnect(c)

\* The server starts empty.  The clients of a run are two sockets naming two
\* venues, two sockets at one venue, or three sockets at one venue; they
\* submit the listed choice values.  Only the runs of the second line start
\* early enough for a deadline to pass before the clock stops at MaxNow.
Init ==
  \/ InitWith(SubSeq(SocketIds, 1, 2), Locs, {"share"}, MaxJoins, MaxNow)
  \/ InitWith(SubSeq(SocketIds, 1, 2), {"L1"}, SubmittedChoices, MaxJoinsTimed, 0)
  \/ InitWith(SubSeq(SocketIds, 1, 2), {"L1"}, SubmittedChoices, MaxJoinsRejoin,
              MaxNow)
  \/ InitWith(SocketIds, {"L1"}, {"steal"}, MaxJoinsCrowd, MaxNow)

Spec == Init /\ [][Next]_vars

\* ------------------------------------------------------------ properties
\* number of occurrences of socket id c in queue q
RECURSIVE Count(_, _)
Count(q, c) ==
  IF q = <<>> THEN 0
  ELSE (IF Head(q) = c THEN 1 ELSE 0) + Count(Tail(q), c)

QueuesOf(c) == {l \in Locs : Count(waitingByLocation[l], c) > 0}

MatchesOf(c) ==
  {id \in DOMAIN matches : matches[id].a.id = c \/ matches[id].b.id = c}

\* everything but the record of the last step
state == <<sockets, unissued, venues, decisions, socketData, cleanups, waitingByLocation,
           matches, timers, nextId, joinsLeft, now>>

\* C1: no connection identifier appears in the waiting queues of two
\* different locations.
C1_OneQueuePerConnection ==
  \A c \in Conns : Cardinality(QueuesOf(c)) <= 1

\* C2: no connection identifier is a participant (side a or side b) of more
\* than one match of the live set.
C2_OneMatchPerConnection ==
  \A c \in Conns : Cardinality(MatchesOf(c)) <= 1

\* C3: a join_location for a location whose queue is empty creates no match:
\* the joiner is appended to that queue, the live match set is unchanged and
\* the sender receives queued with position = the new queue length = 1.
C3_JoinEmptyQueues ==
  [][(/\ last'.ev = "join_location"
      /\ waitingByLocation[last'.locationId] = <<>>)
       => LET c == last'.c
              l == last'.locationId
          IN /\ waitingByLocation'[l] = <<c>>
             /\ \A k \in Locs \ {l} :
                  waitingByLocation'[k] = waitingByLocation[k]
             /\ matches' = matches
             /\ emitted' = <<QueuedMsg(c, 1)>>
             /\ emitted'[1].position = Len(waitingByLocation'[l])
    ]_vars

\* the first join_location the server ever handles
C3_Witness ==
  /\ last.ev = "join_location"
  /\ sockets = {SocketIds[1]}
  /\ unissued # <<>>
  /\ Head(unissued) = SocketIds[2]
  /\ nextId = 1
  /\ last.c = SocketIds[1]
  /\ waitingByLocation[last.locationId] = <<last.c>>
  /\ emitted = <<QueuedMsg(last.c, 1)>>

\* C4: a join_location for a location whose queue holds exactly one waiting
\* connection creates exactly one new match pairing the two: the waiting
\* connection is side A, the joiner side B, the sides are different
\* connections, the queue is empty afterwards and both receive match_found
\* with the same matchId and deadline.
C4_JoinPairsTheWaiting ==
  [][(/\ last'.ev = "join_location"
      /\ Len(waitingByLocation[last'.locationId]) = 1)
       => LET c == last'.c
              l == last'.locationId
          IN /\ DOMAIN matches' = DOMAIN matches \cup {nextId}
             /\ nextId \notin DOMAIN matches
             /\ \A id \in DOMAIN matches : matches'[id] = matches[id]
             /\ matches'[nextId].a.id = waitingByLocation[l][1]
             /\ matches'[nextId].b.id = c
             /\ matches'[nextId].a.id # matches'[nextId].b.id
             /\ waitingByLocation'[l] = <<>>
             /\ Len(emitted') = 2
             /\ emitted'[1].ev = "match_found"
             /\ emitted'[2].ev = "match_found"
             /\ {emitted'[1].to, emitted'[2].to}
                  = {matches'[nextId].a.id, matches'[nextId].b.id}
             /\ emitted'[1].matchId = emitted'[2].matchId
             /\ emitted'[1].decisionDeadline = emitted'[2].decisionDeadline
    ]_vars

IsResult(m) == m.ev = "result"

\* the result messages of the last step: side A's first, then side B's
Results == SelectSeq(emitted, IsResult)

\* which sides the specification's outcome table gives a token: <<A, B>>
Tokened(a, b) ==
  CASE a = "share" /\ b = "share" -> <<TRUE, TRUE>>
    [] a = "share" /\ b = "steal" -> <<FALSE, TRUE>>
    [] a = "steal" /\ b = "share" -> <<TRUE, FALSE>>
    [] a = "steal" /\ b = "steal" -> <<FALSE, FALSE>>

\* C5: whenever a match is finalized, by a submission or by the timer, with
\* recorded or defaulted decisions, each side's result carries a prize code
\* exactly when the outcome table gives that side a token for the two final
\* decisions.
C5_TokensFollowDecisions ==
  Len(Results) = 2 =>
    /\ Results[1].yourChoice \in Choices
    /\ Results[1].theirChoice \in Choices
    /\ Results[2].yourChoice = Results[1].theirChoice
    /\ Results[2].theirChoice = Results[1].yourChoice
    /\ (Results[1].yourPrizeCode # NULL)
         = Tokened(Results[1].yourChoice, Results[1].theirChoice)[1]
    /\ (Results[2].yourPrizeCode # NULL)
         = Tokened(Results[2].theirChoice, Results[2].yourChoice)[2]

\* side A's recorded share against side B's defaulted steal
C5_Witness ==
  /\ last.ev = "timeout"
  /\ Len(Results) = 2
  /\ Results[1].yourChoice = "share"
  /\ Results[1].theirChoice = "steal"
  /\ Results[1].yourPrizeCode = NULL
  /\ Results[2].yourPrizeCode # NULL

\* C6: when the deadline-plus-grace timer of a live match fires and neither
\* side has a recorded decision, both sides are defaulted to steal: each side
\* receives result (steal, steal, no prize code) and the match leaves the
\* live set.
C6_TimeoutDefaultsBothToSteal ==
  [][(/\ last'.ev = "timeout"
      /\ last'.matchId \in DOMAIN matches
      /\ matches[last'.matchId].a.choice = NULL
      /\ matches[last'.matchId].b.choice = NULL)
       => LET id == last'.matchId
          IN /\ id \notin DOMAIN matches'
             /\ emitted' =
                  <<ResultMsg(matches[id].a.id, id, "steal", "steal", NULL),
                    ResultMsg(matches[id].b.id, id, "steal", "steal", NULL)>>
    ]_vars

C6_Witness ==
  /\ last.ev = "timeout"
  /\ Len(emitted) = 2
  /\ \A i \in 1..2 :
       /\ emitted[i].ev = "result"
       /\ emitted[i].matchId = last.matchId
       /\ emitted[i].yourChoice = "steal"
       /\ emitted[i].theirChoice = "steal"
       /\ emitted[i].yourPrizeCode = NULL
  /\ emitted[1].to # emitted[2].to
  /\ last.matchId \notin DOMAIN matches

\* the step handles a legal submit_choice of participant c of live match id
Accepted(c, id) ==
  /\ last'.ev = "submit_choice"
  /\ last'.c = c
  /\ last'.matchId = id
  /\ last'.choice \in Choices
  /\ id \in DOMAIN matches
  /\ c \in {matches[id].a.id, matches[id].b.id}

C8_NoFinalizeBeforeBothDecided ==
  [][\A id \in DOMAIN matches :
       (\/ \E i \in 1..Len(emitted') :
              emitted'[i].ev = "result" /\ emitted'[i].matchId = id
        \/ id \notin DOMAIN matches' /\ last'.ev # "disconnect")
         => \/ now > matches[id].deadline
            \/ /\ \/ matches[id].a.choice # NULL
                  \/ Accepted(matches[id].a.id, id)
               /\ \/ matches[id].b.choice # NULL
                  \/ /\ matches[id].b.id # matches[id].a.id
                     /\ Accepted(matches[id].b.id, id)
    ]_vars

\* one side has submitted before the deadline and the match is still live
C8_Witness ==
  /\ last.ev = "submit_choice"
  /\ last.matchId \in DOMAIN matches
  /\ LET m == matches[last.matchId]
     IN /\ m.a.choice = last.choice
        /\ m.a.id = last.c
        /\ m.b.choice = NULL
        /\ m.b.id # m.a.id
        /\ now <= m.deadline
        /\ emitted = <<ChoiceRecordedMsg(m.a.id, m.id)>>

\* number of requeue notifications to c among msgs
RequeuesTo(msgs, c) ==
  Cardinality({i \in 1..Len(msgs) :
                 msgs[i] = RequeueMsg(c, "Opponent disconnected")})

\* C9: when one participant of a live match disconnects while the other is
\* connected, the match leaves the live set, the survivor receives exactly
\* one requeue notification and is appended to the queue of the match's
\* location exactly once, so that it then occurs exactly once in that queue.
C9_SurvivorRequeuedOnce ==
  [][last'.ev = "disconnect" =>
     \A id \in DOMAIN matches :
       LET m == matches[id]
           c == last'.c
           survivor == IF m.a.id = c THEN m.b.id ELSE m.a.id
       IN (/\ c \in {m.a.id, m.b.id}
           /\ survivor \in sockets \ {c})
            => /\ id \notin DOMAIN matches'
               /\ RequeuesTo(emitted', survivor) = 1
               /\ Count(waitingByLocation'[m.locationId], survivor)
                    = Count(waitingByLocation[m.locationId], survivor) + 1
               /\ Count(waitingByLocation'[m.locationId], survivor) = 1
    ]_vars

\* the step handles a submit_choice that names no live match or comes from a
\* socket that is not a participant of the match it names
Rejected ==
  /\ last'.ev = "submit_choice"
  /\ \/ last'.matchId \notin DOMAIN matches
     \/ last'.c \notin {matches[last'.matchId].a.id,
                        matches[last'.matchId].b.id}

\* C10 as stated: a submit_choice naming a match that is not live, or sent
\* by a socket that is not a participant of the match, emits one error to
\* the sender only and changes nothing.
C10_RejectedWithError ==
  [][Rejected
       => /\ state' = state
          /\ Len(emitted') = 1
          /\ emitted'[1].ev = "error"
          /\ emitted'[1].to = last'.c
    ]_vars

\* C10 amended: a submit_choice naming a match that is not live, or sent by
\* a socket that is not a participant of the match, changes nothing and sends
\* nothing to any other connection; when its choice is share or steal it
\* emits exactly one message, an error to the sender.
C10_RejectedWithErrorIfLegal ==
  [][Rejected
       => /\ state' = state
          /\ \A i \in 1..Len(emitted') : emitted'[i].to = last'.c
          /\ last'.choice \in Choices =>
               /\ Len(emitted') = 1
               /\ emitted'[1].ev = "error"
    ]_vars

\* a share / steal for a live match from a socket that is not in it
C10_Witness ==
  /\ last.ev = "submit_choice"
  /\ last.choice \in Choices
  /\ last.matchId \in DOMAIN matches
  /\ last.c \notin {matches[last.matchId].a.id, matches[last.matchId].b.id}
  /\ emitted = <<ErrorMsg(last.c, "Not part of this match")>>
  /\ matches[last.matchId].a.choice = NULL
  /\ matches[last.matchId].b.choice = NULL

\* C11: a submit_choice whose choice is neither share nor steal is dropped:
\* nothing is sent to anyone and nothing changes, whatever match identifier
\* it names and whoever sends it.
C11_IllegalChoiceDropped ==
  [][(/\ last'.ev = "submit_choice"
      /\ last'.choice \notin Choices)
       => /\ emitted' = <<>>
          /\ state' = state
    ]_vars

\* number of result messages for match id addressed to c among msgs
ResultsFor(msgs, id, c) ==
  Cardinality({i \in 1..Len(msgs) :
                 /\ msgs[i].ev = "result"
                 /\ msgs[i].matchId = id
                 /\ msgs[i].to = c})

\* C12: results are never double-sent.  A step sends a connection at most
\* one result for a match, only for a match of the live set, which the step
\* removes; a removed identifier is never issued again, so no later step can
\* send a second one; and a finalize-check on a missing match (its timer
\* firing after the match is gone) sends nothing and changes nothing.
C12_ResultsSentOnce ==
  [][/\ \A id \in MatchIds, c \in Conns :
          ResultsFor(emitted', id, c) > 0 =>
            /\ ResultsFor(emitted', id, c) = 1
            /\ id \in DOMAIN matches
            /\ id \notin DOMAIN matches'
     /\ \A id \in DOMAIN matches' \ DOMAIN matches :
          id = nextId /\ nextId' = nextId + 1
     /\ \A id \in DOMAIN matches' : id < nextId'
     /\ nextId' >= nextId
     /\ (last'.ev = "timeout" /\ last'.matchId \notin DOMAIN matches) =>
          /\ emitted' = <<>>
          /\ matches' = matches
          /\ waitingByLocation' = waitingByLocation
          /\ socketData' = socketData
    ]_vars

\* the final decision of a side of match m in the step being taken: the value
\* this step's accepted submission records for it, else its recorded value,
\* else the default
FinalA(m) ==
  IF Accepted(m.a.id, m.id) THEN last'.choice
  ELSE IF m.a.choice # NULL THEN m.a.choice
  ELSE "steal"

FinalB(m) ==
  IF m.b.id # m.a.id /\ Accepted(m.b.id, m.id) THEN last'.choice
  ELSE IF m.b.choice # NULL THEN m.b.choice
  ELSE "steal"

\* C13: at finalization side A's result reports A's final decision as
\* yourChoice, B's as theirChoice and A's own token, and side B's result the
\* mirror image: A's yourChoice is B's theirChoice and the reverse.
C13_ResultReportsOwnAndOpponent ==
  [][\A id \in DOMAIN matches :
       (\E i \in 1..Len(emitted') :
          emitted'[i].ev = "result" /\ emitted'[i].matchId = id)
         => LET m == matches[id]
                R == SelectSeq(emitted', IsResult)
            IN /\ Len(R) = 2
               /\ R[1].to = m.a.id
               /\ R[1].matchId = id
               /\ R[1].yourChoice = FinalA(m)
               /\ R[1].theirChoice = FinalB(m)
               /\ (R[1].yourPrizeCode # NULL) = Tokened(FinalA(m), FinalB(m))[1]
               /\ R[2].to = m.b.id
               /\ R[2].matchId = id
               /\ R[2].yourChoice = FinalB(m)
               /\ R[2].theirChoice = FinalA(m)
               /\ (R[2].yourPrizeCode # NULL) = Tokened(FinalA(m), FinalB(m))[2]
               /\ R[1].yourChoice = R[2].theirChoice
               /\ R[2].yourChoice = R[1].theirChoice
    ]_vars

\* X submitted share, Y submits steal: X gets (share, steal, null) and Y gets
\* (steal, share, a prize code)
C13_Witness ==
  /\ last.ev = "submit_choice"
  /\ last.choice = "steal"
  /\ Len(emitted) = 3
  /\ emitted[2].ev = "result"
  /\ emitted[2].yourChoice = "share"
  /\ emitted[2].theirChoice = "steal"
  /\ emitted[2].yourPrizeCode = NULL
  /\ emitted[3].ev = "result"
  /\ emitted[3].to = last.c
  /\ emitted[3].to # emitted[2].to
  /\ emitted[3].yourChoice = "steal"
  /\ emitted[3].theirChoice = "share"
  /\ emitted[3].yourPrizeCode # NULL

\* C14: a connection that has disconnected appears in no location queue and
\* is a participant of no live match, in every state from its disconnect on.
C14_DisconnectedIsGone ==
  \A c \in Conns \ sockets :
    /\ QueuesOf(c) = {}
    /\ MatchesOf(c) = {}

\* the step sends a result message for match id
ResultSent(id) ==
  \E i \in 1..Len(emitted') :
    emitted'[i].ev = "result" /\ emitted'[i].matchId = id

\* C15: a match is in the live set exactly from its creation to its
\* finalization or cancellation.  It enters only as the fresh identifier of a
\* join_location; it leaves either finalized (a submit_choice or its timer,
\* with results) or cancelled (the disconnect of a participant, without
\* results), never both; a participant's disconnect always removes it; a
\* result is sent only by the step that removes the match, so a match that
\* is gone never produces one, also when its timer fires later; and an
\* identifier that has left never comes back.
C15_LiveFromCreationToRemoval ==
  [][/\ \A id \in DOMAIN matches' \ DOMAIN matches :
          /\ last'.ev = "join_location"
          /\ id = nextId
          /\ nextId' = nextId + 1
     /\ \A id \in DOMAIN matches' : id < nextId'
     /\ nextId' >= nextId
     /\ \A id \in DOMAIN matches \ DOMAIN matches' :
          \/ /\ last'.ev \in {"submit_choice", "timeout"}
             /\ last'.matchId = id
             /\ ResultSent(id)
          \/ /\ last'.ev = "disconnect"
             /\ last'.c \in {matches[id].a.id, matches[id].b.id}
             /\ ~ResultSent(id)
     /\ \A id \in DOMAIN matches :
          (/\ last'.ev = "disconnect"
           /\ last'.c \in {matches[id].a.id, matches[id].b.id})
            => id \notin DOMAIN matches'
     /\ \A id \in MatchIds :
          ResultSent(id) => /\ id \in DOMAIN matches
                            /\ id \notin DOMAIN matches'
                            /\ last'.ev # "disconnect"
    ]_vars

\* the timer of a match cancelled by a disconnect fires: nothing is sent
C15_Witness ==
  /\ last.ev = "timeout"
  /\ last.matchId < nextId
  /\ last.matchId \notin DOMAIN matches
  /\ emitted = <<>>
  /\ sockets # {}

\* C16: once a match has left the live set, by finalization or by a
\* disconnect, no timer for it is pending (so its callback cannot run).
C16_NoTimerAfterRemoval ==
  \A id \in DOMAIN timers : id \in DOMAIN matches

\* C17: within one location pairing is first-in-first-out: when a
\* join_location creates a match, side A is the head of that location's
\* queue, the joiner is side B, the rest of the queue keeps its order and
\* the other queues are untouched.
C17_FirstInFirstPaired ==
  [][last'.ev = "join_location" =>
       \A id \in DOMAIN matches' \ DOMAIN matches :
         LET l == last'.locationId
             queue == waitingByLocation[l]
         IN /\ queue # <<>>
            /\ matches'[id].a.id = Head(queue)
            /\ matches'[id].b.id = last'.c
            /\ waitingByLocation'[l] = Tail(queue)
            /\ \A k \in Locs \ {l} :
                 waitingByLocation'[k] = waitingByLocation[k]
    ]_vars

\* a match is made while another connection waits behind the head
C17_Witness ==
  /\ last.ev = "join_location"
  /\ Len(emitted) = 2
  /\ emitted[1].ev = "match_found"
  /\ emitted[1].matchId \in DOMAIN matches
  /\ matches[emitted[1].matchId].a.id = emitted[1].to
  /\ waitingByLocation[last.locationId] # <<>>
  /\ Head(waitingByLocation[last.locationId]) # emitted[1].to

\* C18: the location of a match is the location its participants joined:
\* when a join_location for location l pairs the joiner with the head of l's
\* queue, the new match's locationId is l (and so a survivor of the match is
\* later re-admitted to the queue of l).
C18_MatchAtJoinedLocation ==
  [][last'.ev = "join_location" =>
       \A id \in DOMAIN matches' \ DOMAIN matches :
         matches'[id].locationId = last'.locationId
    ]_vars

\* C19: when a join_location pops a queue head that is no longer connected,
\* the stale head is discarded and the requester appended to the tail; no
\* match is created, the other queues are untouched, and the only message is
\* queued to the requester with position = the new queue length.
C19_StaleHeadDiscarded ==
  [][(/\ last'.ev = "join_location"
      /\ waitingByLocation[last'.locationId] # <<>>
      /\ Head(waitingByLocation[last'.locationId]) \notin sockets)
       => LET c == last'.c
              l == last'.locationId
              queue == waitingByLocation[l]
          IN /\ waitingByLocation'[l] = Append(Tail(queue), c)
             /\ \A k \in Locs \ {l} :
                  waitingByLocation'[k] = waitingByLocation[k]
             /\ matches' = matches
             /\ timers' = timers
             /\ emitted' = <<QueuedMsg(c, Len(waitingByLocation'[l]))>>
    ]_vars

\* the requester is queued although it never went through the empty-queue
\* branch for this location: the head it found was stale
C19_Witness ==
  /\ last.ev = "join_location"
  /\ last.c \in sockets
  /\ cleanups[last.c][last.locationId] = 0
  /\ last.c \notin {matches[id].b.id : id \in DOMAIN matches}
  /\ emitted = <<QueuedMsg(last.c, 1)>>
  /\ waitingByLocation[last.locationId] = <<last.c>>

\* Runs in which the clock advances and every armed timer eventually fires.
InitLive ==
  InitWith(SubSeq(SocketIds, 1, 2), {"L1"}, SubmittedChoices, MaxJoinsLive, 0)

LiveSpec ==
  /\ InitLive
  /\ [][Next]_vars
  /\ WF_vars(\E t \in TickTargets : Tick(t))
  /\ \A id \in MatchIds : WF_vars(TimerFire(id))

\* C20: no match stays in the live set forever: when the clock advances and
\* timers fire, every match that is created is eventually removed, whatever
\* the participants send or omit.
C20_EveryMatchEnds ==
  \A id \in MatchIds : (id \in DOMAIN matches) ~> (id \notin DOMAIN matches)

\* the timer removes a match one side of which never submitted
C20_Witness ==
  /\ last.ev = "timeout"
  /\ last.matchId \notin DOMAIN matches
  /\ Len(emitted) = 2
  /\ emitted[1].ev = "result"
  /\ emitted[1].matchId = last.matchId
  /\ emitted[1].yourChoice = "steal"
  /\ emitted[1].theirChoice = "share"
  /\ emitted[1].to # emitted[2].to

\* queue q without the occurrences of socket id c
Without(q, c) ==
  IF q = <<>> THEN <<>>
  ELSE SelectSeq(q, LAMBDA x : x # c)

\* the matches at location l that the disconnect of c cancels with a
\* connected survivor
CancelledAt(l, c) ==
  {id \in DOMAIN matches :
     /\ matches[id].locationId = l
     /\ c \in {matches[id].a.id, matches[id].b.id}
     /\ (IF matches[id].a.id = c THEN matches[id].b.id ELSE matches[id].a.id)
          \in sockets \ {c}}

\* C21: re-admitting a survivor only appends it to the tail of the match's
\* location queue.  A disconnect creates no match and sends no match_found,
\* changes no match it does not remove, and in every queue keeps the entries
\* of the other connections in place and in order, followed by one appended
\* survivor per cancelled match, also when a connection already waits there.
C21_RequeueOnlyAppends ==
  [][last'.ev = "disconnect" =>
       LET c == last'.c
       IN /\ DOMAIN matches' \subseteq DOMAIN matches
          /\ \A id \in DOMAIN matches' : matches'[id] = matches[id]
          /\ nextId' = nextId
          /\ \A i \in 1..Len(emitted') : emitted'[i].ev = "requeue"
          /\ \A l \in Locs :
               LET old == Without(waitingByLocation[l], c)
                   new == Without(waitingByLocation'[l], c)
               IN /\ Len(new) = Len(old) + Cardinality(CancelledAt(l, c))
                  /\ SubSeq(new, 1, Len(old)) = old
                  /\ \A i \in (Len(old) + 1)..Len(new) :
                       \E id \in CancelledAt(l, c) :
                         new[i] \in {matches[id].a.id, matches[id].b.id}
    ]_vars

\* a survivor is appended behind a connection that already waits, unpaired
C21_Witness ==
  /\ last.ev = "disconnect"
  /\ Len(emitted) = 1
  /\ emitted[1].ev = "requeue"
  /\ matches = NoMatches
  /\ \E l \in Locs :
       /\ Len(waitingByLocation[l]) = 2
       /\ waitingByLocation[l][1] \in sockets
       /\ waitingByLocation[l][2] = emitted[1].to
       /\ waitingByLocation[l][1] # waitingByLocation[l][2]

\* the two results a finalize-check sends for match m when side A's decision
\* is a and side B's is b: A's first, then B's, each with its own token
PerSideResults(m, a, b) ==
  /\ Len(emitted') >= 2
  /\ LET ra == emitted'[Len(emitted') - 1]
         rb == emitted'[Len(emitted')]
     IN /\ ra.ev = "result" /\ ra.to = m.a.id /\ ra.matchId = m.id
        /\ rb.ev = "result" /\ rb.to = m.b.id /\ rb.matchId = m.id
        /\ ra.yourChoice = a /\ ra.theirChoice = b
        /\ rb.yourChoice = b /\ rb.theirChoice = a
        /\ (ra.yourPrizeCode # NULL) = (a = "steal" /\ b = "share")
        /\ (rb.yourPrizeCode # NULL) = (a = "share" /\ b = "steal")

\* C22: defaulting applies per side and never overrides a recorded decision.
\* When a finalize-check runs past the deadline with exactly one side
\* recorded (by the timer, or by a submission of that side while the other is
\* silent), the recorded side keeps its decision, only the silent side is
\* defaulted to steal, and a recorded share against the default earns no
\* token while the defaulted side gets one.
C22_DefaultPerSide ==
  [][/\ (last'.ev = "timeout" /\ last'.matchId \in DOMAIN matches) =>
          LET m == matches[last'.matchId]
          IN /\ (m.a.choice # NULL /\ m.b.choice = NULL) =>
                  PerSideResults(m, m.a.choice, "steal")
             /\ (m.a.choice = NULL /\ m.b.choice # NULL) =>
                  PerSideResults(m, "steal", m.b.choice)
     /\ (/\ Accepted(last'.c, last'.matchId)
         /\ now > matches[last'.matchId].deadline) =>
          LET m == matches[last'.matchId]
          IN /\ (last'.c = m.a.id /\ m.b.choice = NULL) =>
                  PerSideResults(m, last'.choice, "steal")
             /\ (last'.c = m.b.id /\ m.b.id # m.a.id /\ m.a.choice = NULL) =>
                  PerSideResults(m, "steal", last'.choice)
    ]_vars

\* the timer finds side A's recorded share and a silent side B
C22_Witness ==
  /\ last.ev = "timeout"
  /\ last.matchId \notin DOMAIN matches
  /\ Len(emitted) = 2
  /\ emitted[1].ev = "result"
  /\ emitted[1].matchId = last.matchId
  /\ emitted[1].yourChoice = "share"
  /\ emitted[1].theirChoice = "steal"
  /\ emitted[1].yourPrizeCode = NULL
  /\ emitted[2].ev = "result"
  /\ emitted[2].to # emitted[1].to
  /\ emitted[2].yourChoice = "steal"
  /\ emitted[2].theirChoice = "share"
  /\ emitted[2].yourPrizeCode # NULL

\* C23: no match pairs a connection with itself: side A and side B of every
\* live match are different connections.
C23_NoSelfPairing ==
  \A id \in DOMAIN matches : matches[id].a.id # matches[id].b.id

\* C24: both participants of every live match are connected sockets, and
\* when a match is finalized each of its two results goes to a connected
\* socket.
C24_ParticipantsLive ==
  /\ \A id \in DOMAIN matches :
       /\ matches[id].a.id \in sockets
       /\ matches[id].b.id \in sockets
  /\ Results # <<>> =>
       /\ Len(Results) = 2
       /\ Results[1].to \in sockets
       /\ Results[2].to \in sockets

\* both sides share: each of the two connected participants gets its result
C24_Witness ==
  /\ last.ev = "submit_choice"
  /\ last.matchId \notin DOMAIN matches
  /\ Len(Results) = 2
  /\ Results[1].to \in sockets
  /\ Results[2].to \in sockets
  /\ Results[1].to # Results[2].to
  /\ Results[1].yourChoice = "share"
  /\ Results[2].yourChoice = "share"
  /\ Results[1].yourPrizeCode # NULL
  /\ Results[2].yourPrizeCode # NULL
====
